---- MODULE Spec2Model ----
(***************************************************************************)
(* A model of the MBTiles cutout engine of planetutils:                    *)
(*   planetutils/tile_math.py      coordinate transforms, ray casting,     *)
(*                                 candidate enumeration                   *)
(*   planetutils/mbtiles_cutter.py MBTilesCutter (the engine and store)    *)
(*   planetutils/mbtiles_cutout.py main (the command line)                 *)
(*                                                                         *)
(* Angles are integers in hundredths of a degree.  The Web-Mercator        *)
(* projection is tabulated: MercFloor and MercRound hold the latitudes of  *)
(* the 32 row boundaries of zoom 5 (every boundary and every tile centre   *)
(* of zooms 0..4 is one of them), so lat_to_tile_y and tile_center_lonlat  *)
(* return what the floating point code returns for such angles.  The      *)
(* intersection abscissa of the ray casting test is computed as the code   *)
(* computes it, in IEEE 754 double arithmetic on the doubles of the angles.*)
(***************************************************************************)
EXTENDS Integers, Sequences, FiniteSets, TLC

\* --------------------------------------------------------------- bounds
\* Largest zoom level a caller passes to process_features.
MaxZoomArg == 2
\* Largest number of boundaries in one features dict.
MaxFeatures == 2
\* Largest number of process_features invocations on one engine (SpecRerun).
MaxCalls == 2
\* A storage error hits one of the first MaxFailAt DELETEs of a zoom level.
MaxFailAt == 3
\* Largest zoom level passed to the functions of tile_math called on their own.
MaxZoom == 3

\* ------------------------------------------------------------ tile math
RECURSIVE Pow2(_)
Pow2(z) == IF z = 0 THEN 1 ELSE 2 * Pow2(z - 1)

Min2(a, b) == IF a < b THEN a ELSE b
Max2(a, b) == IF a > b THEN a ELSE b

\* ----------------------------------------------------- float arithmetic
\* Python floats are IEEE 754 doubles: every operation returns the double
\* nearest to the exact result, ties to the even significand.  A double is
\* [neg, m, e], the number (-1)^neg * m * 2^e, with m a natural number of at
\* most Significand bits; naturals are sequences of limbs to the base Base,
\* lowest limb first, without a leading zero limb.
LimbBits == 14
Base == 16384
Significand == 53

Limb(a, i) == IF i >= 1 /\ i <= Len(a) THEN a[i] ELSE 0

Trim(a) ==
    LET nz == {i \in 1..Len(a) : a[i] # 0}
    IN  IF nz = {} THEN << >>
        ELSE SubSeq(a, 1, CHOOSE i \in nz : \A j \in nz : j <= i)

\* The natural n < 2^31 as limbs.
Big(n) == Trim(<< n % Base, (n \div Base) % Base, n \div (Base * Base) >>)

BCmp(a, b) ==
    IF Len(a) # Len(b) THEN (IF Len(a) > Len(b) THEN 1 ELSE -1)
    ELSE LET d == {i \in 1..Len(a) : a[i] # b[i]}
         IN  IF d = {} THEN 0
             ELSE LET k == CHOOSE i \in d : \A j \in d : j <= i
                  IN  IF a[k] > b[k] THEN 1 ELSE -1

RECURSIVE AddFrom(_, _, _, _)
AddFrom(a, b, i, c) ==
    IF i > Len(a) /\ i > Len(b) THEN (IF c = 0 THEN << >> ELSE << c >>)
    ELSE LET t == Limb(a, i) + Limb(b, i) + c
         IN  << t % Base >> \o AddFrom(a, b, i + 1, t \div Base)
BAdd(a, b) == Trim(AddFrom(a, b, 1, 0))

\* a - b for a >= b.
RECURSIVE SubFrom(_, _, _, _)
SubFrom(a, b, i, c) ==
    IF i > Len(a) THEN << >>
    ELSE LET t == Limb(a, i) - Limb(b, i) - c
         IN  IF t < 0 THEN << t + Base >> \o SubFrom(a, b, i + 1, 1)
             ELSE << t >> \o SubFrom(a, b, i + 1, 0)
BSub(a, b) == Trim(SubFrom(a, b, 1, 0))

\* a * k for a limb k.
RECURSIVE MulFrom(_, _, _, _)
MulFrom(a, k, i, c) ==
    IF i > Len(a) THEN (IF c = 0 THEN << >> ELSE << c >>)
    ELSE LET t == a[i] * k + c
         IN  << t % Base >> \o MulFrom(a, k, i + 1, t \div Base)
BMulSmall(a, k) == Trim(MulFrom(a, k, 1, 0))

RECURSIVE MulAcc(_, _, _)
MulAcc(a, b, j) ==
    IF j > Len(b) THEN << >>
    ELSE BAdd(BMulSmall(a, b[j]), << 0 >> \o MulAcc(a, b, j + 1))
BMul(a, b) == Trim(MulAcc(a, b, 1))

\* 2^k for k in 0..LimbBits.
TwoTo(k) == << 1, 2, 4, 8, 16, 32, 64, 128, 256, 512, 1024, 2048, 4096, 8192,
               16384 >>[k + 1]

\* a * 2^s, floor(a / 2^s), a mod 2^s, the number of bits of a.
BShl(a, s) ==
    Trim([i \in 1..(s \div LimbBits) |-> 0] \o MulFrom(a, TwoTo(s % LimbBits), 1, 0))
BShr(a, s) ==
    LET w == s \div LimbBits
        lo == TwoTo(s % LimbBits)
        hi == TwoTo(LimbBits - (s % LimbBits))
    IN  Trim([i \in 1..(Len(a) - w) |->
                (a[i + w] \div lo) + (Limb(a, i + w + 1) % lo) * hi])
BLow(a, s) ==
    LET w == s \div LimbBits
    IN  Trim([i \in 1..Min2(Len(a), w + 1) |->
                IF i <= w THEN a[i] ELSE a[i] % TwoTo(s % LimbBits)])
BBits(a) ==
    IF Len(a) = 0 THEN 0
    ELSE (Len(a) - 1) * LimbBits
         + Cardinality({k \in 0..(LimbBits - 1) : TwoTo(k) <= a[Len(a)]})

\* The largest limb g with g * d <= cur, for cur < Base * d and a divisor
\* whose highest limb is at least Base / 2: the quotient of the two highest
\* limbs of cur by the highest limb of d is g, g + 1 or g + 2.
QDigitNear(cur, d, est) ==
    CHOOSE g \in {h \in {est - 2, est - 1, est} : h >= 0} :
        /\ BCmp(BMulSmall(d, g), cur) <= 0
        /\ BCmp(BMulSmall(d, g + 1), cur) > 0
QDigit(cur, d) ==
    QDigitNear(cur, d, Min2(Base - 1, (Limb(cur, Len(d) + 1) * Base + Limb(cur, Len(d)))
                                      \div d[Len(d)]))

\* Long division of n by d, limb by limb from the highest: the limbs of the
\* quotient found so far, highest first, and the remainder.
DivDigit(q, cur, d, dig) == [q |-> q \o << dig >>, r |-> BSub(cur, BMulSmall(d, dig))]
DivCur(q, cur, d) == DivDigit(q, cur, d, QDigit(cur, d))
DivLimb(prev, limb, d) == DivCur(prev.q, Trim(limb \o prev.r), d)
RECURSIVE DivFrom(_, _, _)
DivFrom(n, d, i) ==
    IF i > Len(n) THEN [q |-> << >>, r |-> << >>]
    ELSE DivLimb(DivFrom(n, d, i + 1), << n[i] >>, d)
\* n div d and n mod d for d # 0; both are first scaled to bring the highest
\* limb of d to Base / 2 or more.
Unscaled(qr, s) ==
    [q |-> Trim([i \in 1..Len(qr.q) |-> qr.q[Len(qr.q) + 1 - i]]), r |-> BShr(qr.r, s)]
Scaled(n, d, s) == Unscaled(DivFrom(BShl(n, s), BShl(d, s), 1), s)
BDivMod(n, d) == Scaled(n, d, Len(d) * LimbBits - BBits(d))

\* The double nearest to (-1)^neg * m * 2^e for t = [neg, m, e] (plus
\* something below the last bit of m when sticky), ties to even.
RoundUp(t, q, c, s, sticky) ==
    [neg |-> t.neg,
     m |-> IF c > 0 \/ (c = 0 /\ (sticky \/ Limb(q, 1) % 2 = 1))
           THEN BAdd(q, << 1 >>) ELSE q,
     e |-> t.e + s]
RoundAt(t, s, sticky) ==
    IF s <= 0 THEN t
    ELSE RoundUp(t, BShr(t.m, s), BCmp(BLow(t.m, s), BShl(<< 1 >>, s - 1)), s, sticky)
Round(t, sticky) == RoundAt(t, BBits(t.m) - Significand, sticky)

\* The exact sum of two doubles (not rounded).
SumAligned(a, b, am, bm, e, c) ==
    IF a.neg = b.neg THEN [neg |-> a.neg, m |-> BAdd(am, bm), e |-> e]
    ELSE IF c = 0 THEN [neg |-> FALSE, m |-> << >>, e |-> 0]
    ELSE IF c > 0 THEN [neg |-> a.neg, m |-> BSub(am, bm), e |-> e]
    ELSE [neg |-> b.neg, m |-> BSub(bm, am), e |-> e]
SumAt(a, b, am, bm, e) == SumAligned(a, b, am, bm, e, BCmp(am, bm))
SumTo(a, b, e) == SumAt(a, b, BShl(a.m, a.e - e), BShl(b.m, b.e - e), e)
Sum(a, b) == SumTo(a, b, Min2(a.e, b.e))
Neg(a) == [neg |-> ~a.neg, m |-> a.m, e |-> a.e]

FAdd(a, b) == Round(Sum(a, b), FALSE)
FSub(a, b) == FAdd(a, Neg(b))
FMul(a, b) == Round([neg |-> a.neg # b.neg, m |-> BMul(a.m, b.m), e |-> a.e + b.e], FALSE)
\* a / b for b # 0: two guard bits and a sticky bit below the significand.
Quotient(a, b, qr, k) ==
    [neg |-> a.neg # b.neg,
     m |-> BAdd(BShl(qr.q, 1), IF Len(qr.r) = 0 THEN << >> ELSE << 1 >>),
     e |-> a.e - b.e - k - 1]
FDivAt(a, b, k) == Round(Quotient(a, b, BDivMod(BShl(a.m, k), b.m), k), FALSE)
FDiv(a, b) ==
    IF Len(a.m) = 0 THEN [neg |-> FALSE, m |-> << >>, e |-> 0]
    ELSE FDivAt(a, b, Max2(0, Significand + 2 + BBits(b.m) - BBits(a.m)))
\* a <= b
NotPositive(t) == Len(t.m) = 0 \/ t.neg
FLe(a, b) == NotPositive(Sum(a, Neg(b)))

\* The double of an angle given in hundredths of a degree.
Float(v) ==
    FDiv([neg |-> v < 0, m |-> Big(IF v < 0 THEN -v ELSE v), e |-> 0],
         [neg |-> FALSE, m |-> Big(100), e |-> 0])

\* floor(100 * atan(sinh(pi * (1 - 2k/32)))) in degrees, k = 0..32, at index k+1.
MercFloor ==
    << 8505, 8397, 8267, 8109, 7917, 7684, 7401, 7061,
       6651, 6160, 5577, 4892, 4097, 3195, 2194, 1117,
       0, -1118, -2195, -3196, -4098, -4893, -5578, -6161,
       -6652, -7062, -7402, -7685, -7918, -8110, -8268, -8398,
       -8506 >>

\* round(100 * atan(sinh(pi * (1 - 2k/32)))) in degrees, k = 0..48, at index k+1.
MercRound ==
    << 8505, 8398, 8268, 8109, 7917, 7684, 7402, 7061,
       6651, 6161, 5578, 4892, 4098, 3195, 2194, 1118,
       0, -1118, -2194, -3195, -4098, -4892, -5578, -6161,
       -6651, -7061, -7402, -7684, -7917, -8109, -8268, -8398,
       -8505, -8593, -8666, -8725, -8774, -8814, -8848, -8875,
       -8897, -8915, -8930, -8943, -8953, -8961, -8968, -8974,
       -8979 >>

\* Faulty variant: the north-west corner of the tile instead of its centre.
tile_corner_lonlat(z, x, y) ==
    LET n == Pow2(z)
        lon == ((2 * x) * 36000) \div (2 * n) - 18000
        k == (2 * ((n - 1) - y)) * (16 \div n)
    IN  << lon, MercRound[k + 1] >>

\* tile_center_lonlat(z, x, y): <<lon, lat>> of the centre of TMS tile (x, y).
\* y_center_xyz = ((n-1) - y + 0.5) / n is the boundary of index
\* (2*((n-1)-y) + 1) * 32/(2n) of the zoom-5 table.
tile_center_lonlat(z, x, y) ==
    LET n == Pow2(z)
        lon == ((2 * x + 1) * 36000) \div (2 * n) - 18000
        k == (2 * ((n - 1) - y) + 1) * (16 \div n)
    IN  << lon, MercRound[k + 1] >>

\* xinters = (y - p1y) * (p2x - p1x) / (p2y - p1y) + p1x, on doubles.
XInters(y, p1x, p1y, p2x, p2y) ==
    FAdd(FDiv(FMul(FSub(y, p1y), FSub(p2x, p1x)), FSub(p2y, p1y)), p1x)

\* One edge of the ray casting loop: TRUE when the edge p1->p2 toggles `inside`.
EdgeToggles(x, y, p1, p2) ==
    LET p1x == p1[1]
        p1y == p1[2]
        p2x == p2[1]
        p2y == p2[2]
    IN  /\ y > Min2(p1y, p2y)
        /\ y <= Max2(p1y, p2y)
        /\ x <= Max2(p1x, p2x)
        /\ \/ p1x = p2x
           \/ FLe(Float(x), XInters(Float(y), Float(p1x), Float(p1y), Float(p2x),
                                    Float(p2y)))

RECURSIVE RayCast(_, _, _, _, _)
RayCast(x, y, polygon, i, inside) ==
    LET n == Len(polygon)
    IN  IF i > n THEN inside
        ELSE RayCast(x, y, polygon, i + 1,
                     IF EdgeToggles(x, y, polygon[i], polygon[(i % n) + 1])
                     THEN ~inside ELSE inside)

\* point_in_polygon(point, polygon): the loop i = 1..n over the edges
\* polygon[i-1] -> polygon[i % n] (0-based), starting from inside = False.
point_in_polygon(point, polygon) ==
    RayCast(point[1], point[2], polygon, 1, FALSE)

\* get_polygon_coords(geometry): the outer ring, or <<>> when there is none.
get_polygon_coords(geometry) ==
    LET coords == geometry.coordinates
    IN  IF geometry.type = "Polygon"
        THEN IF Len(coords) > 0 THEN coords[1] ELSE << >>
        ELSE IF geometry.type = "MultiPolygon"
        THEN IF Len(coords) > 0 /\ Len(coords[1]) > 0
             THEN coords[1][1] ELSE << >>
        ELSE IF geometry.type = "LineString"
        THEN IF Len(coords) >= 2
             THEN LET left == coords[1][1]
                      bottom == coords[1][2]
                      right == coords[2][1]
                      top == coords[2][2]
                  IN  << <<left, bottom>>, <<right, bottom>>, <<right, top>>,
                         <<left, top>>, <<left, bottom>> >>
             ELSE << >>
        ELSE << >>

\* Faulty variant: the row is left in the top-origin (XYZ) convention.
lat_to_tile_y_xyz(lat, zoom) ==
    LET n == Pow2(zoom)
    IN  IF lat >= 8506 THEN 0
        ELSE IF lat <= -8506 THEN n
        ELSE Cardinality({k \in 1..(n - 1) : lat <= MercFloor[k * (32 \div n) + 1]})

\* lat_to_tile_y(lat, zoom).  The latitude is clamped to +-85.05112878, which
\* lies just outside the exact Mercator bound 85.0511287798: at the northern
\* clamp y_xyz is a tiny negative number and int() gives 0; at the southern
\* clamp y_xyz is just above n, int() gives n and the TMS row is -1.
lat_to_tile_y(lat, zoom) ==
    LET n == Pow2(zoom)
        y_xyz == IF lat >= 8506 THEN 0
                 ELSE IF lat <= -8506 THEN n
                 ELSE Cardinality({k \in 1..(n - 1) :
                                     lat <= MercFloor[k * (32 \div n) + 1]})
    IN  (n - 1) - y_xyz

\* lon_to_tile_x(lon, zoom): int() truncates toward zero, then the clamp.
lon_to_tile_x(lon, zoom) ==
    LET n == Pow2(zoom)
        v == (lon + 18000) * n
        x == IF v >= 0 THEN v \div 36000 ELSE -((-v) \div 36000)
    IN  Max2(0, Min2(n - 1, x))

\* get_tiles_in_bbox(bbox, zoom): the list of (column, row), column-major.
RangeSeq(a, b) == [i \in 1..(b - a + 1) |-> a + i - 1]

Cross(xs, ys) ==
    [i \in 1..(Len(xs) * Len(ys)) |->
        << xs[((i - 1) \div Len(ys)) + 1], ys[((i - 1) % Len(ys)) + 1] >>]

\* Faulty variant: the ranges stop before x_max and y_max.
get_tiles_in_bbox_exclusive(bbox, zoom) ==
    LET x_min == lon_to_tile_x(bbox[1], zoom)
        x_max == lon_to_tile_x(bbox[3], zoom)
        y_top == lat_to_tile_y(bbox[4], zoom)
        y_bottom == lat_to_tile_y(bbox[2], zoom)
        y_min == Min2(y_top, y_bottom)
        y_max == Max2(y_top, y_bottom)
        xs == RangeSeq(x_min, x_max - 1)
        ys == RangeSeq(y_min, y_max - 1)
    IN  IF Len(xs) = 0 \/ Len(ys) = 0 THEN << >> ELSE Cross(xs, ys)

get_tiles_in_bbox(bbox, zoom) ==
    LET x_min == lon_to_tile_x(bbox[1], zoom)
        x_max == lon_to_tile_x(bbox[3], zoom)
        y_top == lat_to_tile_y(bbox[4], zoom)
        y_bottom == lat_to_tile_y(bbox[2], zoom)
        y_min == Min2(y_top, y_bottom)
        y_max == Max2(y_top, y_bottom)
        xs == RangeSeq(x_min, x_max)
        ys == RangeSeq(y_min, y_max)
    IN  IF Len(xs) = 0 \/ Len(ys) = 0 THEN << >> ELSE Cross(xs, ys)


\* ------------------------------------------------- boundaries (the inputs)
WestRing ==
    << <<-18000, -8500>>, <<0, -8500>>, <<0, 8500>>, <<-18000, 8500>>,
       <<-18000, -8500>> >>
MidRing == << <<-9000, -5000>>, <<9000, -5000>>, <<9000, 5000>>, <<-9000, 5000>> >>
FarRing == << <<10000, 6000>>, <<12000, 6000>>, <<12000, 7000>>, <<10000, 6000>> >>

\* The geometry dict of the boundary called `name`.
Geometry(name) ==
    CASE name = "west"  -> [type |-> "Polygon", coordinates |-> << WestRing >>]
      [] name = "small" -> [type |-> "LineString",
                            coordinates |-> << <<-6000, 2000>>, <<-3000, 5000>> >>]
      [] name = "world" -> [type |-> "LineString",
                            coordinates |-> << <<-18000, -9000>>, <<18000, 9000>> >>]
      [] name = "multi" -> [type |-> "MultiPolygon",
                            coordinates |-> << << MidRing >>, << FarRing >> >>]
      [] name = "nopoly"  -> [type |-> "Polygon", coordinates |-> << >>]
      [] name = "nomulti" -> [type |-> "MultiPolygon", coordinates |-> << << >> >>]
      [] name = "noline"  -> [type |-> "LineString", coordinates |-> << >>]
      [] OTHER            -> [type |-> "Point", coordinates |-> <<0, 0>>]

\* The boundary names, in the order a features dict is built in.
NameOrder == << "nopoly", "west", "point", "small", "nomulti", "multi", "noline", "world" >>
Names == {NameOrder[i] : i \in 1..Len(NameOrder)}

RECURSIVE Flatten(_)
Flatten(ss) == IF Len(ss) = 0 THEN << >> ELSE Head(ss) \o Flatten(Tail(ss))

\* Every coordinate pair of a geometry.
AllPoints(geometry) ==
    IF geometry.type = "Polygon" THEN Flatten(geometry.coordinates)
    ELSE IF geometry.type = "MultiPolygon"
    THEN Flatten(Flatten(geometry.coordinates))
    ELSE IF geometry.type = "LineString" THEN geometry.coordinates
    ELSE << geometry.coordinates >>

\* Feature.bbox(): [left, bottom, right, top] over every coordinate pair.
FeatureBbox(name) ==
    LET pts == AllPoints(Geometry(name))
        lons == {pts[i][1] : i \in 1..Len(pts)}
        lats == {pts[i][2] : i \in 1..Len(pts)}
        lo(S) == CHOOSE v \in S : \A w \in S : v <= w
        hi(S) == CHOOSE v \in S : \A w \in S : v >= w
    IN  << lo(lons), lo(lats), hi(lons), hi(lats) >>

\* The features dicts a caller may pass: name -> Feature, in iteration order.
FeatureDicts ==
    UNION {{[i \in 1..n |-> NameOrder[ix[i]]] :
              ix \in {f \in [1..n -> 1..Len(NameOrder)] :
                        \A i, j \in 1..n : i < j => f[i] < f[j]}}
           : n \in 0..MaxFeatures}

\* ------------------------------------------------------ files (the inputs)
Required == {"zoom_level", "tile_column", "tile_row", "tile_data"}

\* The fixture of the tests: the full 4x4 grid of zoom 2.
StoreGrid == {<<2, x, y, 1>> : x \in 0..3, y \in 0..3}
\* A sparse pyramid with rows at several zoom levels.
StoreSparse ==
    {<<0, 0, 0, 2>>, <<1, 0, 1, 2>>, <<1, 1, 0, 2>>, <<2, 1, 2, 3>>,
     <<2, 2, 1, 3>>, <<2, 3, 0, 3>>, <<3, 2, 5, 3>>, <<3, 6, 1, 3>>}

Files ==
    {[exists |-> FALSE, table |-> FALSE, columns |-> {}, rows |-> {}],
     [exists |-> TRUE, table |-> FALSE, columns |-> {}, rows |-> {}]}
    \cup {[exists |-> TRUE, table |-> TRUE, columns |-> Required \ {c}, rows |-> {}]
          : c \in Required}
    \cup {[exists |-> TRUE, table |-> TRUE, columns |-> Required \cup {"extra"},
           rows |-> StoreSparse],
          [exists |-> TRUE, table |-> TRUE, columns |-> Required, rows |-> StoreGrid]}

BatchSizes == {-1, 0, 2, 1000}
RerunBatchSizes == {2}

\* ------------------------------------------------------------------ state
VARIABLES
    file,            \* the file at mbtiles_path: exists, table, columns
    disk,            \* the committed rows <<zoom_level, tile_column, tile_row, tile_data>>
    eng,             \* "none", "live", "failed" (__init__ raised), "deleted"
    conn,            \* self.conn: "unset", "open", "closed"
    batch_size,      \* self.batch_size
    dry_run,         \* self.dry_run
    pending,         \* rows deleted in the connection's open transaction
    touched,         \* a tile row was read or written through this engine
    pc,              \* process_features: "idle", "feature", "zoom"
    features,        \* the features dict (names in iteration order)
    min_zoom,
    max_zoom,
    fi,              \* index of the feature the loop is at
    zoom,            \* zoom level the inner loop is at
    affected,        \* _process_single_feature's counter
    total_affected,  \* process_features' counter
    result,          \* outcome of the last operation: op, status, value
    ncalls,          \* process_features invocations so far
    commits,         \* commits issued by the current invocation
    atCall,          \* rows visible and rows committed when the invocation began
    aborted,         \* uncommitted deletions left behind by invocations that raised
    hist,            \* the finished invocations, oldest first
    cli              \* main(): its position, its arguments and what it has read

engineVars == << eng, conn, batch_size, dry_run >>
callVars == << pc, features, min_zoom, max_zoom, fi, zoom, affected, total_affected >>
histVars == << ncalls, commits, atCall, aborted, hist >>
vars == << file, disk, engineVars, pending, touched, callVars, result, histVars, cli >>

\* The rows the connection sees: the committed rows less its own deletions.
View == disk \ pending

\* The state before any engine exists.
Fresh ==
    /\ \E f \in Files :
          /\ file = [exists |-> f.exists, table |-> f.table, columns |-> f.columns]
          /\ disk = f.rows
    /\ eng = "none"
    /\ conn = "unset"
    /\ batch_size = 1000
    /\ dry_run = FALSE
    /\ pending = {}
    /\ touched = FALSE
    /\ pc = "idle"
    /\ features = << >>
    /\ min_zoom = 0
    /\ max_zoom = 0
    /\ fi = 0
    /\ zoom = 0
    /\ affected = 0
    /\ total_affected = 0
    /\ result = [op |-> "none", status |-> "ok", value |-> 0]
    /\ ncalls = 0
    /\ commits = 0
    /\ atCall = [view |-> {}, disk |-> {}]
    /\ aborted = {}
    /\ hist = << >>

CliOff ==
    [pc |-> "off", min_zoom |-> 0, max_zoom |-> 0, batch_size |-> 0,
     dry_run |-> FALSE, features |-> << >>, initial_count |-> 0,
     final_count |-> 0, status |-> 0, store |-> {}]

\* The engine used as a library: main() is not running.
Init == Fresh /\ cli = CliOff

\* ------------------------------------------------------------ the engine
\* Faulty variant: the column check is left out.
_validate_table_only(f) == IF ~f.table THEN "ValueError" ELSE "ok"

\* _validate_mbtiles: the tiles table, then the four required columns.
_validate_mbtiles(f) ==
    IF ~f.table THEN "ValueError"
    ELSE IF ~(Required \subseteq f.columns) THEN "ValueError"
    ELSE "ok"

\* __init__(mbtiles_path, batch_size, dry_run)
ConstructWith(sizes, modes) ==
    /\ eng = "none"
    /\ pc = "idle"
    /\ \E bs \in sizes, dr \in modes :
          /\ batch_size' = bs
          /\ dry_run' = dr
    /\ touched' = FALSE
    /\ pending' = {}
    /\ IF ~file.exists
       THEN /\ eng' = "failed"
            /\ conn' = "unset"
            /\ result' = [op |-> "__init__", status |-> "ValueError", value |-> 0]
       ELSE /\ conn' = "open"
            /\ eng' = IF _validate_mbtiles(file) = "ok" THEN "live" ELSE "failed"
            /\ result' = [op |-> "__init__", status |-> _validate_mbtiles(file),
                          value |-> 0]
    /\ UNCHANGED << file, disk, callVars, histVars >>

Construct == ConstructWith(BatchSizes, BOOLEAN) /\ UNCHANGED cli
ConstructRerun == ConstructWith(RerunBatchSizes, {FALSE}) /\ UNCHANGED cli

\* get_tile_count(): SELECT COUNT(*) FROM tiles, on the connection's view.
get_tile_count == Cardinality(View)

CountRows ==
    /\ eng = "live"
    /\ conn = "open"
    /\ pc = "idle"
    /\ touched' = TRUE
    /\ result' = [op |-> "get_tile_count", status |-> "ok", value |-> get_tile_count]
    /\ UNCHANGED << file, disk, engineVars, pending, callVars, histVars >>

GetTileCount == CountRows /\ UNCHANGED cli

\* close(): `if hasattr(self, 'conn') and self.conn: self.conn.close()`.
\* A connection object is always truthy; closing a closed connection is a no-op.
\* Faulty variant: no hasattr guard, so an object without conn raises.
CloseStatusNoGuard(c) == IF c = "unset" THEN "AttributeError" ELSE "ok"
CloseStatus(c) == "ok"
ConnAfterClose(c) == IF c = "unset" THEN "unset" ELSE "closed"

\* What close() does to the state: an open transaction is rolled back.
CloseEffect(op) ==
    /\ conn' = ConnAfterClose(conn)
    /\ pending' = IF conn = "unset" THEN pending ELSE {}
    /\ aborted' = IF conn = "unset" THEN aborted ELSE {}
    /\ result' = [op |-> op, status |-> CloseStatus(conn),
                  value |-> IF conn = "closed" THEN 1 ELSE 0]

CloseCall ==
    /\ eng = "live"
    /\ pc = "idle"
    /\ CloseEffect("close")
    /\ UNCHANGED << file, disk, eng, batch_size, dry_run, touched, callVars,
                    ncalls, commits, atCall, hist >>

Close == CloseCall /\ UNCHANGED cli

\* __del__(): self.close(), also for an object whose __init__ raised.
Del ==
    /\ eng \in {"live", "failed"}
    /\ pc = "idle"
    /\ CloseEffect("__del__")
    /\ eng' = "deleted"
    /\ UNCHANGED << file, disk, batch_size, dry_run, touched, callVars,
                    ncalls, commits, atCall, hist, cli >>

\* ---------------------------------------------------- process_features
\* The rows of `view` a DELETE ... WHERE zoom_level, tile_column, tile_row hits.
RowsAt(view, t) == {r \in view : r[1] = t[1] /\ r[2] = t[2] /\ r[3] = t[3]}

\* Faulty variant: every tile of the batch is counted, hit or not.
DeleteLoopCountsAll(tiles, view) ==
    [deleted |-> Len(tiles),
     gone |-> UNION {RowsAt(view, tiles[i]) : i \in 1..Len(tiles)}]

\* `for zoom, tile_col, tile_row in tiles:` one DELETE a tile, in order; the
\* i-th finds its rows unless an earlier DELETE of the same coordinate took
\* them, and is counted when its cursor.rowcount > 0.
DeleteLoop(tiles, view) ==
    LET hit(i) == IF \E j \in 1..(i - 1) : tiles[j] = tiles[i] THEN {}
                  ELSE RowsAt(view, tiles[i])
    IN  [deleted |-> Cardinality({i \in 1..Len(tiles) : hit(i) # {}}),
         gone |-> UNION {hit(i) : i \in 1..Len(tiles)}]

\* Faulty variant: the dry_run test is left out.
_delete_tiles_always(tiles, view, dry) ==
    DeleteLoop(tiles, view)

\* Faulty variant: the hits are counted but the rows stay.
_delete_tiles_counts_only(tiles, view, dry) ==
    [deleted |-> DeleteLoop(tiles, view).deleted,
     gone |-> {}]

\* _delete_tiles(tiles): the count it returns and the rows it removes.
_delete_tiles(tiles, view, dry) ==
    IF Len(tiles) = 0 THEN [deleted |-> 0, gone |-> {}]
    ELSE IF dry THEN [deleted |-> Len(tiles), gone |-> {}]
    ELSE DeleteLoop(tiles, view)

\* Variant: every bbox candidate is kept, the centre test is not made.
FilterTilesAll(cands, z, polygon) ==
    [i \in 1..Len(cands) |-> << z, cands[i][1], cands[i][2] >>]

\* tiles_to_delete of one zoom level: the candidates whose centre is in the ring.
FilterTiles(cands, z, polygon) ==
    SelectSeq([i \in 1..Len(cands) |-> << z, cands[i][1], cands[i][2] >>],
              LAMBDA t : point_in_polygon(tile_center_lonlat(z, t[2], t[3]), polygon))

TilesToDelete(name, z) ==
    FilterTiles(get_tiles_in_bbox(FeatureBbox(name), z), z,
                get_polygon_coords(Geometry(name)))

\* range(0, len(tiles_to_delete), self.batch_size) for a non-zero step.
ChunkStarts(n, b) ==
    IF b < 0 THEN << >> ELSE [k \in 1..((n + b - 1) \div b) |-> (k - 1) * b]

\* batch = tiles_to_delete[i:i + self.batch_size]
Batch(tiles, i, b) == SubSeq(tiles, i + 1, Min2(i + b, Len(tiles)))

\* The batches the loop hands to _delete_tiles, in order.  With a step of 0
\* range() raises before the first of them, with a negative step it is empty.
Chunks(tiles, b) ==
    IF b = 0 THEN << >>
    ELSE LET starts == ChunkStarts(Len(tiles), b)
         IN  [k \in 1..Len(starts) |-> Batch(tiles, starts[k], b)]

\* `for i in range(...): affected += self._delete_tiles(batch)` over the
\* chunks lo..hi in order: the first half of them, then the second half on
\* the rows the first has left.
RECURSIVE RunChunks(_, _, _, _, _, _, _)
RunChunks(tiles, starts, lo, hi, b, view, dry) ==
    IF lo > hi THEN [deleted |-> 0, gone |-> {}]
    ELSE IF lo = hi THEN _delete_tiles(Batch(tiles, starts[lo], b), view, dry)
    ELSE LET mid == (lo + hi) \div 2
             first == RunChunks(tiles, starts, lo, mid, b, view, dry)
             rest == RunChunks(tiles, starts, mid + 1, hi, b, view \ first.gone, dry)
         IN  [deleted |-> first.deleted + rest.deleted,
              gone |-> first.gone \cup rest.gone]

\* `if tiles_to_delete:` then the batches.
DeleteInBatches(tiles, b, view, dry) ==
    IF Len(tiles) = 0 THEN [deleted |-> 0, gone |-> {}]
    ELSE LET starts == ChunkStarts(Len(tiles), b)
         IN  RunChunks(tiles, starts, 1, Len(starts), b, view, dry)

\* Faulty variant: the commit does not depend on the total.
CommitWheneverReal(dry, total) == ~dry

\* `if not self.dry_run and total_affected > 0`
CommitNeeded(dry, total) == ~dry /\ total > 0

\* _process_single_feature on a usable ring, zoom levels mn..z: `affected`.
RECURSIVE ZoomLoop(_, _, _, _, _, _)
ZoomLoop(name, mn, z, b, view, dry) ==
    IF z < mn THEN [deleted |-> 0, gone |-> {}]
    ELSE LET prev == ZoomLoop(name, mn, z - 1, b, view, dry)
             r == DeleteInBatches(TilesToDelete(name, z), b, view \ prev.gone, dry)
         IN  [deleted |-> prev.deleted + r.deleted, gone |-> prev.gone \cup r.gone]

\* `for name, feature in features.items(): total_affected += affected`,
\* the first i boundaries; one without a ring adds 0.
RECURSIVE FeatureLoop(_, _, _, _, _, _, _)
FeatureLoop(fs, i, mn, mx, b, view, dry) ==
    IF i = 0 THEN [deleted |-> 0, gone |-> {}]
    ELSE LET prev == FeatureLoop(fs, i - 1, mn, mx, b, view, dry)
             r == ZoomLoop(fs[i], mn, mx, b, view \ prev.gone, dry)
         IN  IF Len(get_polygon_coords(Geometry(fs[i]))) = 0 THEN prev
             ELSE [deleted |-> prev.deleted + r.deleted,
                   gone |-> prev.gone \cup r.gone]

\* process_features as a function of its inputs, when nothing raises: the
\* total it returns and the rows it deletes.
ProcessFeatures(fs, mn, mx, b, view, dry) ==
    FeatureLoop(fs, Len(fs), mn, mx, b, view, dry)

ZoomRanges == {zz \in (0..MaxZoomArg) \X (0..MaxZoomArg) : zz[1] <= zz[2]}

\* process_features is entered.
Enter ==
    /\ eng = "live"
    /\ conn = "open"
    /\ pc = "idle"
    /\ pc' = "feature"
    /\ fi' = 1
    /\ zoom' = 0
    /\ affected' = 0
    /\ total_affected' = 0
    /\ ncalls' = ncalls + 1
    /\ commits' = 0
    /\ atCall' = [view |-> View, disk |-> disk]
    /\ result' = [op |-> "process_features", status |-> "running", value |-> 0]
    /\ UNCHANGED << file, disk, engineVars, pending, touched, aborted, hist >>

\* process_features(features, min_zoom, max_zoom), the engine's first invocation.
Call ==
    /\ ncalls = 0
    /\ \E fs \in FeatureDicts, zz \in ZoomRanges :
          /\ features' = fs
          /\ min_zoom' = zz[1]
          /\ max_zoom' = zz[2]
    /\ Enter
    /\ UNCHANGED cli

\* The same cutout is run again on the same engine.
Recall ==
    /\ ncalls > 0
    /\ ncalls < MaxCalls
    /\ UNCHANGED << features, min_zoom, max_zoom, cli >>
    /\ Enter

HistEntry(status, total) ==
    [dry_run |-> dry_run, batch_size |-> batch_size, status |-> status,
     total |-> total, view |-> atCall.view]

\* An exception leaves process_features: nothing is committed or rolled back.
Raise(status, gone) ==
    /\ pc' = "idle"
    /\ pending' = pending \cup gone
    /\ aborted' = aborted \cup pending \cup gone
    /\ result' = [op |-> "process_features", status |-> status, value |-> 0]
    /\ hist' = Append(hist, HistEntry(status, 0))
    /\ UNCHANGED << file, disk, engineVars, features, min_zoom, max_zoom, fi, zoom,
                    affected, total_affected, ncalls, commits, atCall, cli >>

\* Faulty variant: an empty ring ends the loop over the features.
StartFeatureStops ==
    /\ pc = "feature"
    /\ fi <= Len(features)
    /\ IF Len(get_polygon_coords(Geometry(features[fi]))) = 0
       THEN /\ fi' = Len(features) + 1
            /\ UNCHANGED << pc, zoom, affected, total_affected >>
       ELSE /\ pc' = "zoom"
            /\ zoom' = min_zoom
            /\ affected' = 0
            /\ UNCHANGED << fi, total_affected >>
    /\ UNCHANGED << file, disk, engineVars, pending, touched, features, min_zoom,
                    max_zoom, result, histVars, cli >>

\* _process_single_feature up to its zoom loop: the ring is extracted; an
\* empty ring returns 0 and the loop of process_features goes on.
StartFeature ==
    /\ pc = "feature"
    /\ fi <= Len(features)
    /\ IF Len(get_polygon_coords(Geometry(features[fi]))) = 0
       THEN /\ fi' = fi + 1
            /\ total_affected' = total_affected + 0
            /\ UNCHANGED << pc, zoom, affected >>
       ELSE /\ pc' = "zoom"
            /\ zoom' = min_zoom
            /\ affected' = 0
            /\ UNCHANGED << fi, total_affected >>
    /\ UNCHANGED << file, disk, engineVars, pending, touched, features, min_zoom,
                    max_zoom, result, histVars, cli >>

\* One iteration of `for zoom in range(min_zoom, max_zoom + 1)`: enumerate,
\* filter, delete in batches; after the last zoom level the feature's count
\* is added to total_affected.
ProcessZoom ==
    /\ pc = "zoom"
    /\ LET tiles == TilesToDelete(features[fi], zoom)
           r == DeleteInBatches(tiles, batch_size, View, dry_run)
       IN  /\ ~(batch_size = 0 /\ Len(tiles) > 0)
           /\ affected' = affected + r.deleted
           /\ pending' = pending \cup r.gone
           /\ touched' = (touched \/ (~dry_run /\ batch_size > 0 /\ Len(tiles) > 0))
           /\ IF zoom < max_zoom
              THEN /\ zoom' = zoom + 1
                   /\ UNCHANGED << pc, fi, total_affected >>
              ELSE /\ pc' = "feature"
                   /\ fi' = fi + 1
                   /\ total_affected' = total_affected + affected'
                   /\ UNCHANGED zoom
    /\ UNCHANGED << file, disk, engineVars, features, min_zoom, max_zoom, result,
                    histVars, cli >>

\* range() raises ValueError for a step of 0.
ZeroStep ==
    /\ pc = "zoom"
    /\ batch_size = 0
    /\ Len(TilesToDelete(features[fi], zoom)) > 0
    /\ Raise("ValueError", {})
    /\ UNCHANGED touched

\* A storage error: the m-th DELETE of this zoom level raises, after the
\* first m-1 were executed in the open transaction.  One fault per behaviour.
StorageFailure ==
    /\ pc = "zoom"
    /\ ~dry_run
    /\ batch_size > 0
    /\ \A i \in 1..Len(hist) : hist[i].status # "StorageError"
    /\ LET tiles == TilesToDelete(features[fi], zoom)
       IN  \E m \in 1..Min2(Len(tiles), MaxFailAt) :
              /\ Raise("StorageError",
                       DeleteInBatches(SubSeq(tiles, 1, m - 1), batch_size, View,
                                       dry_run).gone)
              /\ touched' = TRUE

\* The end of process_features: the one commit, and the return.
Finish ==
    /\ pc = "feature"
    /\ fi > Len(features)
    /\ IF CommitNeeded(dry_run, total_affected)
       THEN /\ disk' = disk \ pending
            /\ pending' = {}
            /\ commits' = commits + 1
       ELSE UNCHANGED << disk, pending, commits >>
    /\ pc' = "idle"
    /\ result' = [op |-> "process_features", status |-> "ok", value |-> total_affected]
    /\ hist' = Append(hist, HistEntry("ok", total_affected))
    /\ UNCHANGED << file, engineVars, touched, features, min_zoom, max_zoom, fi, zoom,
                    affected, total_affected, ncalls, atCall, aborted, cli >>

\* The engine as the tests and the command use it: one invocation an engine.
Next ==
    \/ Construct
    \/ GetTileCount
    \/ Close
    \/ Del
    \/ Call
    \/ StartFeature
    \/ ProcessZoom
    \/ ZeroStep
    \/ StorageFailure
    \/ Finish

Spec == Init /\ [][Next]_vars

\* The engine reused: the cutout is rerun on the same engine, on a valid store.
InitRerun == Init /\ _validate_mbtiles(file) = "ok"

NextRerun ==
    \/ ConstructRerun
    \/ Close
    \/ Del
    \/ Call
    \/ Recall
    \/ StartFeature
    \/ ProcessZoom
    \/ StorageFailure
    \/ Finish

SpecRerun == InitRerun /\ [][NextRerun]_vars

\* ------------------------------------------------------------------ main
\* The values --min-zoom and --max-zoom take (type=int).
ZoomArgs == (-1 .. MaxZoomArg) \cup {23}
CliBatchSizes == {0, 2, 1000}

\* Faulty variant: the order of the two bounds is not checked.
ZoomRangeUnordered(mn, mx) == ~(mn < 0 \/ mx > 22)

\* `if args.min_zoom < 0 or args.max_zoom > 22: exit(1)`, then
\* `if args.min_zoom > args.max_zoom: exit(1)`.
ZoomRangeValid(mn, mx) == ~(mn < 0 \/ mx > 22) /\ ~(mn > mx)

InitMain ==
    /\ Fresh
    /\ \E mn \in ZoomArgs, mx \in ZoomArgs, bs \in CliBatchSizes, dr \in BOOLEAN :
          cli = [CliOff EXCEPT !.pc = "start", !.min_zoom = mn, !.max_zoom = mx,
                               !.batch_size = bs, !.dry_run = dr, !.store = disk]

Exit(code) == [cli EXCEPT !.pc = "exit", !.status = code]

\* The zoom levels are validated.
MainValidate ==
    /\ cli.pc = "start"
    /\ cli' = IF ZoomRangeValid(cli.min_zoom, cli.max_zoom)
              THEN [cli EXCEPT !.pc = "load"] ELSE Exit(1)
    /\ UNCHANGED << file, disk, engineVars, pending, touched, callVars, result,
                    histVars >>

\* The features are loaded, or the loader raises.
MainLoad ==
    /\ cli.pc = "load"
    /\ \/ \E fs \in FeatureDicts : cli' = [cli EXCEPT !.pc = "create", !.features = fs]
       \/ cli' = Exit(1)
    /\ UNCHANGED << file, disk, engineVars, pending, touched, callVars, result,
                    histVars >>

\* cutter = MBTilesCutter(...): a ValueError is caught and ends the run.
MainCreate ==
    /\ cli.pc = "create"
    /\ ConstructWith({cli.batch_size}, {cli.dry_run})
    /\ cli' = IF eng' = "live" THEN [cli EXCEPT !.pc = "count"] ELSE Exit(1)

\* initial_count = cutter.get_tile_count()
MainCount ==
    /\ cli.pc = "count"
    /\ CountRows
    /\ cli' = [cli EXCEPT !.pc = "process", !.initial_count = get_tile_count]

\* The count raises: `except Exception: sys.exit(1)`, without a close.
MainCountFails ==
    /\ cli.pc = "count"
    /\ cli' = Exit(1)
    /\ result' = [op |-> "get_tile_count", status |-> "StorageError", value |-> 0]
    /\ UNCHANGED << file, disk, engineVars, pending, touched, callVars, histVars >>

\* total_affected = cutter.process_features(features, min_zoom, max_zoom)
MainProcess ==
    /\ cli.pc = "process"
    /\ features' = cli.features
    /\ min_zoom' = cli.min_zoom
    /\ max_zoom' = cli.max_zoom
    /\ Enter
    /\ cli' = [cli EXCEPT !.pc = "running"]

Returned(status) ==
    /\ cli.pc = "running"
    /\ pc = "idle"
    /\ (hist[Len(hist)].status = "ok") = status

\* final_count, the summary and cutter.close().
MainSummary ==
    /\ Returned(TRUE)
    /\ CloseEffect("close")
    /\ cli' = [Exit(0) EXCEPT !.final_count = get_tile_count]
    /\ UNCHANGED << file, disk, eng, batch_size, dry_run, touched, callVars,
                    ncalls, commits, atCall, hist >>

\* `except Exception`: process_features or the final count raised.
MainExcept ==
    /\ cli.pc = "running"
    /\ pc = "idle"
    /\ CloseEffect("close")
    /\ cli' = Exit(1)
    /\ UNCHANGED << file, disk, eng, batch_size, dry_run, touched, callVars,
                    ncalls, commits, atCall, hist >>

\* The cutter object is finalized (__del__), after the run has left main.
MainTeardown ==
    /\ cli.pc = "exit"
    /\ Del

NextMain ==
    \/ MainValidate
    \/ MainLoad
    \/ MainCreate
    \/ MainCount
    \/ MainCountFails
    \/ MainProcess
    \/ StartFeature
    \/ ProcessZoom
    \/ ZeroStep
    \/ StorageFailure
    \/ Finish
    \/ MainSummary
    \/ MainExcept
    \/ MainTeardown

SpecMain == InitMain /\ [][NextMain]_vars

\* ------------------------------------------- tile_math called on its own
\* The functions of tile_math are module-level and pure; here a caller
\* applies one of them to arguments of its choice and `result` holds the
\* call; the calls share no state, so a behaviour is one call (and, for a
\* tile centre, its conversion back).
Lons == {-18000, -6000, -1000, 1000, 18000}
Lats == {-9000, -8506, -8505, -1000, 1000, 5000, 8505, 9000}
\* bbox: [left, bottom, right, top]
Bboxes == {<< l, b, r, t >> : l \in Lons, b \in Lats, r \in Lons, t \in Lats}
Zooms == 0..MaxZoom

InitMath ==
    /\ Fresh
    /\ ~file.exists
    /\ cli = CliOff

Returns(op, args, value) ==
    /\ result' = [op |-> op, status |-> "ok", args |-> args, value |-> value]
    /\ UNCHANGED << file, disk, engineVars, pending, touched, callVars, histVars, cli >>

GetTilesInBbox ==
    /\ result.op = "none"
    /\ \E bbox \in Bboxes, z \in Zooms :
        Returns("get_tiles_in_bbox", << bbox, z >>, get_tiles_in_bbox(bbox, z))

TileCenter ==
    /\ result.op = "none"
    /\ \E z \in Zooms :
        \E x \in 0..(Pow2(z) - 1), y \in 0..(Pow2(z) - 1) :
            Returns("tile_center_lonlat", << z, x, y >>, tile_center_lonlat(z, x, y))

\* The centre just computed is converted back: lon_to_tile_x of its
\* longitude and lat_to_tile_y of its latitude, at the same zoom.
TileOfCenter ==
    /\ result.op = "tile_center_lonlat"
    /\ LET z == result.args[1]
           lon == result.value[1]
           lat == result.value[2]
       IN  Returns("tile_of_center", result.args,
                   << lon_to_tile_x(lon, z), lat_to_tile_y(lat, z) >>)

\* Simple rings, closed (first vertex repeated) and not, and points on, near
\* and away from their edges.
Triangle == << <<0, 0>>, <<1000, 0>>, <<500, 1000>> >>
Square == << <<-100, -200>>, <<250, -200>>, <<250, 600>>, <<-100, 600>> >>
Slanted == << <<230, -190>>, <<50, -10>>, <<-150, -270>> >>
Rings ==
    UNION {{r, Append(r, r[1])} : r \in {Triangle, Square, Slanted}}
Points ==
    {<< x, y >> : x \in {-100, 80, 110, 140, 170, 200, 250, 500},
                  y \in {-200, -160, -130, -100, -70, -40, 250, 500}}

PointInPolygon ==
    /\ result.op = "none"
    /\ \E point \in Points, polygon \in Rings :
          Returns("point_in_polygon", << point, polygon >>,
                  point_in_polygon(point, polygon))

NextMath ==
    \/ GetTilesInBbox
    \/ TileCenter
    \/ TileOfCenter
    \/ PointInPolygon

SpecMath == InitMath /\ [][NextMath]_vars

\* ================================================================ claims
Last == hist[Len(hist)]
\* The invocation has returned (or raised) and no other has begun.
Returned1 == pc = "idle" /\ Len(hist) > 0 /\ Len(hist) = ncalls
Completed == Returned1 /\ Last.status = "ok"

\* C1: in dry-run mode process_features issues no mutating statement: during
\* and after the invocation the rows visible, the rows committed and the row
\* count are what they were when it began.
C1_DryRunLeavesStore ==
    (dry_run /\ ncalls > 0) =>
        /\ View = atCall.view
        /\ disk = atCall.disk
        /\ get_tile_count = Cardinality(atCall.view)

C1_Witness ==
    /\ Completed
    /\ dry_run
    /\ Last.total > 0
    /\ Len(features) = 2
    /\ min_zoom < max_zoom
    /\ disk # {}

\* C2: one invocation commits at most once, at its end: nothing is committed
\* while boundaries and zoom levels are processed, one commit is issued when
\* the invocation completes with a positive total outside dry-run, and none
\* when the total is 0, in dry-run, or when the invocation raised.
C2_CommitOnceAtEnd ==
    /\ (pc # "idle") => (commits = 0 /\ disk = atCall.disk)
    /\ Returned1 =>
          commits = (IF Last.status = "ok" /\ ~Last.dry_run /\ Last.total > 0
                     THEN 1 ELSE 0)
    /\ (ncalls > 0 /\ commits = 0) => disk = atCall.disk
    /\ (ncalls > 0 /\ commits = 1) => disk = atCall.disk \ (atCall.view \ View)

C2_Witness ==
    /\ Completed
    /\ commits = 1
    /\ Len(features) = 2
    /\ min_zoom < max_zoom
    /\ Cardinality(atCall.disk \ disk) > 2

\* C3: the deletions an aborted invocation left in the open transaction are
\* never made durable: every such row is still in the committed store.
C3_AbortedNeverDurable == aborted \subseteq disk

\* C4: outside dry-run the total a completed invocation returns is the number
\* of rows removed: the row count before the call less the row count after.
C4_TotalIsRowsRemoved ==
    (Completed /\ ~Last.dry_run) =>
        Last.total = Cardinality(atCall.view) - get_tile_count

C4_Witness ==
    /\ Completed
    /\ ~Last.dry_run
    /\ features = << "west", "multi" >>
    /\ Last.total > 0
    /\ \E t \in {<<2, 1, 1>>, <<2, 1, 2>>} : RowsAt(atCall.view, t) = {}
    /\ \E t \in {<<2, 1, 1>>, <<2, 1, 2>>} : RowsAt(atCall.view, t) # {}

\* C5 as stated: of two consecutive completed runs of the same cutout the
\* first affects more than 0 tiles and the second exactly 0.
C5_FirstPositiveSecondZero ==
    \A i \in 1..(Len(hist) - 1) :
        (hist[i].status = "ok" /\ hist[i + 1].status = "ok") =>
            (hist[i].total > 0 /\ hist[i + 1].total = 0)

\* C5 amended: the second of two consecutive completed runs affects exactly 0
\* tiles, and the first affects more than 0 exactly when it removed a row.
C5_SecondRunAffectsNone ==
    \A i \in 1..(Len(hist) - 1) :
        (hist[i].status = "ok" /\ hist[i + 1].status = "ok") =>
            /\ hist[i + 1].total = 0
            /\ (hist[i].total > 0) = (hist[i + 1].view # hist[i].view)

C5_Witness ==
    /\ Len(hist) = 2
    /\ hist[1].status = "ok"
    /\ hist[2].status = "ok"
    /\ hist[1].total > 0
    /\ hist[2].total = 0

\* C6: the total a completed dry-run invocation returns is the total the
\* same invocation returns outside dry-run on the same store.
C6_DryCountIsRealCount ==
    (Completed /\ Last.dry_run) =>
        Last.total = ProcessFeatures(features, min_zoom, max_zoom, batch_size,
                                     atCall.view, FALSE).deleted

\* C7: construction fails with ValueError when the path does not exist or the
\* tiles table or one of its four columns is missing, before any tile row is
\* read or written and before any boundary is processed; it succeeds only
\* when the table and the four columns are there.
StoreValid == file.exists /\ file.table /\ Required \subseteq file.columns

C7_InvalidStoreFailsAtConstruction ==
    /\ eng = "live" => StoreValid
    /\ result.op = "__init__" => (result.status = "ok") = StoreValid
    /\ (eng # "none" /\ ~StoreValid) =>
          /\ eng \in {"failed", "deleted"}
          /\ result.op = "__init__" => result.status = "ValueError"
          /\ ~touched
          /\ ncalls = 0
          /\ pc = "idle"
          /\ pending = {}

C7_Witness ==
    /\ eng = "failed"
    /\ conn = "open"
    /\ file.table
    /\ "tile_data" \notin file.columns

\* C8: close() never raises, however often it is called: a second close, the
\* close of __del__ after an explicit close, and the close of __del__ on an
\* object whose __init__ raised before or after the connection was opened;
\* after it the connection is released (or was never opened).
C8_CloseIdempotent ==
    result.op \in {"close", "__del__"} =>
        /\ result.status = "ok"
        /\ conn \in {"closed", "unset"}
        /\ conn = "unset" => ~file.exists

C8_Witness ==
    /\ result.op = "__del__"
    /\ result.value = 1
    /\ eng = "deleted"

\* C9: a boundary without a usable ring (unknown geometry kind, or empty
\* coordinates of a Polygon, MultiPolygon or LineString) is skipped: the step
\* that meets it adds nothing to the total, deletes nothing and moves to the
\* next boundary, and the completed invocation returns the total and leaves
\* the rows that the other boundaries alone give.
NoUsableRing(name) ==
    LET g == Geometry(name)
    IN  \/ g.type \notin {"Polygon", "MultiPolygon", "LineString"}
        \/ Len(g.coordinates) = 0
        \/ (g.type = "MultiPolygon" /\ Len(g.coordinates[1]) = 0)

Usable(fs) == SelectSeq(fs, LAMBDA n : ~NoUsableRing(n))

C9_SkipStep ==
    (pc = "feature" /\ fi <= Len(features) /\ NoUsableRing(features[fi])) =>
        /\ pc' = "feature"
        /\ fi' = fi + 1
        /\ total_affected' = total_affected
        /\ pending' = pending
        /\ disk' = disk
        /\ touched' = touched
        /\ hist' = hist

C9_OthersCounted ==
    (Completed /\ result.op = "process_features" /\ Usable(features) # features) =>
        LET r == ProcessFeatures(Usable(features), min_zoom, max_zoom, batch_size,
                                 atCall.view, dry_run)
        IN  /\ result.value = r.deleted
            /\ View = atCall.view \ r.gone

C9_EmptyGeometrySkipped == [][C9_SkipStep]_vars /\ []C9_OthersCounted

C9_Witness ==
    /\ Completed
    /\ ~dry_run
    /\ Len(features) = 2
    /\ NoUsableRing(features[1])
    /\ Last.total > 0
    /\ View # atCall.view

\* C10: zoom bounds that do not satisfy 0 <= min <= max <= 22 end the command
\* with status 1 before the store is opened and before any boundary is
\* processed, the store unchanged; a run that gets past the validation has
\* 0 <= min <= max <= 22.
ZoomBoundsOk == 0 <= cli.min_zoom /\ cli.min_zoom <= cli.max_zoom /\ cli.max_zoom <= 22

C10_BadZoomExitsFirst ==
    (cli.pc \notin {"off", "start"}) =>
        IF ZoomBoundsOk
        THEN ncalls > 0 => (min_zoom = cli.min_zoom /\ max_zoom = cli.max_zoom)
        ELSE /\ cli.pc = "exit"
             /\ cli.status = 1
             /\ eng = "none"
             /\ conn = "unset"
             /\ ~touched
             /\ ncalls = 0
             /\ disk = cli.store

C10_Witness ==
    /\ cli.pc = "exit"
    /\ cli.status = 1
    /\ cli.min_zoom > cli.max_zoom
    /\ cli.min_zoom <= 22
    /\ cli.max_zoom >= 0
    /\ cli.store # {}

\* C11 (scenario A): on the full 4x4 grid of zoom 2 a completed cutout outside
\* dry-run, with a positive batch size, of the ring (-180,-85) (0,-85) (0,85)
\* (-180,85) at zoom 2..2 returns 8, removes exactly the rows of columns 0
\* and 1 (four rows each) and leaves 8 rows, committed.
ScenarioRun(fs) ==
    /\ Completed
    /\ result.op = "process_features"
    /\ ~dry_run
    /\ batch_size > 0
    /\ atCall.view = StoreGrid
    /\ features = fs
    /\ min_zoom = 2
    /\ max_zoom = 2

C11_ScenarioA ==
    ScenarioRun(<< "west" >>) =>
        /\ result.value = 8
        /\ atCall.view \ View = {r \in StoreGrid : r[2] \in {0, 1}}
        /\ \A c \in {0, 1} : Cardinality({r \in atCall.view \ View : r[2] = c}) = 4
        /\ get_tile_count = 8
        /\ disk = View

C11_Witness ==
    /\ ScenarioRun(<< "west" >>)
    /\ result.value = 8
    /\ commits = 1

\* C12 (scenario B): on the full 4x4 grid of zoom 2 a completed cutout outside
\* dry-run, with a positive batch size, of the bbox [-60, 20, -30, 50] at zoom
\* 2..2 returns 1, removes exactly the row of column 1, row 2 and leaves 15
\* rows, committed.
C12_ScenarioB ==
    ScenarioRun(<< "small" >>) =>
        /\ result.value = 1
        /\ atCall.view \ View = {<<2, 1, 2, 1>>}
        /\ get_tile_count = 15
        /\ disk = View

C12_Witness ==
    /\ ScenarioRun(<< "small" >>)
    /\ result.value = 1
    /\ Cardinality(disk) = 15
    /\ <<2, 1, 2, 1>> \notin disk

\* The stored rows a boundary matches: zoom within the range, (column, row)
\* among the boundary's bbox candidates at that zoom, tile centre inside the
\* boundary's outer ring.
MatchedBy(name, r) ==
    LET ring == get_polygon_coords(Geometry(name))
        cands == get_tiles_in_bbox(FeatureBbox(name), r[1])
    IN  /\ Len(ring) > 0
        /\ \E i \in 1..Len(cands) : cands[i] = <<r[2], r[3]>>
        /\ point_in_polygon(tile_center_lonlat(r[1], r[2], r[3]), ring)
MatchedRows(view, fs, mn, mx) ==
    {r \in view : /\ mn <= r[1] /\ r[1] <= mx
                  /\ \E i \in 1..Len(fs) : MatchedBy(fs[i], r)}

\* C13: a completed non-dry-run process_features (positive batch size) is
\* delete-only and exact: the rows left are the rows it found minus exactly
\* the rows matched by some boundary within the zoom range; every other row
\* is still there with its payload, no row is new, and the committed store
\* is that same set.
C13_DeleteOnlyExact ==
    (Completed /\ result.op = "process_features" /\ ~dry_run /\ batch_size > 0) =>
        /\ View = atCall.view \ MatchedRows(atCall.view, features, min_zoom, max_zoom)
        /\ View \subseteq atCall.view
        /\ disk = View
C13_Witness ==
    /\ Completed /\ result.op = "process_features" /\ ~dry_run /\ batch_size > 0
    /\ atCall.view = StoreSparse /\ Len(features) = 2
    /\ min_zoom = 1 /\ max_zoom = 2
    /\ View # atCall.view
    /\ \E r \in View : r[1] = 2
    /\ \E r \in View : r[1] = 0
    /\ \E r \in atCall.view \ View : r[1] = 1

\* C14: for every configured batch size and every list of matched tiles of a
\* zoom level, the chunks handed to deletion are no longer than the batch
\* size, put end to end they are the match list (every matched tile exactly
\* once, none skipped), and the count accumulated for the zoom level in a
\* real run is the number of rows the chunks removed.
C14_ChunksPartition ==
    pc = "zoom" =>
        LET tiles == TilesToDelete(features[fi], zoom)
            chunks == Chunks(tiles, batch_size)
        IN  Len(tiles) > 0 =>
              /\ \A k \in 1..Len(chunks) : Len(chunks[k]) <= batch_size
              /\ Flatten(chunks) = tiles
              /\ (~dry_run /\ batch_size # 0) =>
                    LET r == DeleteInBatches(tiles, batch_size, View, dry_run)
                    IN  r.deleted = Cardinality(r.gone)

\* C15: for every bbox [l, b, r, t] (boxes touching or exceeding the
\* Web-Mercator latitude bound and boxes with l > r included) and every zoom,
\* get_tiles_in_bbox returns exactly (colMax-colMin+1) x (rowMax-rowMin+1)
\* distinct (column, row) pairs, colMin/colMax and rowMin/rowMax being the
\* min/max of the converted corners, every column and row within 0..2^z-1.
C15_EnumerationComplete ==
    result.op = "get_tiles_in_bbox" =>
        LET bbox == result.args[1]
            z == result.args[2]
            tiles == result.value
            c1 == lon_to_tile_x(bbox[1], z)
            c2 == lon_to_tile_x(bbox[3], z)
            r1 == lat_to_tile_y(bbox[2], z)
            r2 == lat_to_tile_y(bbox[4], z)
        IN  /\ Len(tiles) = (Max2(c1, c2) - Min2(c1, c2) + 1)
                            * (Max2(r1, r2) - Min2(r1, r2) + 1)
            /\ \A i, j \in 1..Len(tiles) : i # j => tiles[i] # tiles[j]
            /\ \A i \in 1..Len(tiles) :
                  /\ tiles[i][1] \in 0..(Pow2(z) - 1)
                  /\ tiles[i][2] \in 0..(Pow2(z) - 1)

\* C17: round trip: for every zoom and every column and row in 0..2^z-1,
\* lon_to_tile_x of the tile centre's longitude is the column and
\* lat_to_tile_y of its latitude is the row.
C17_RoundTrip ==
    result.op = "tile_of_center" =>
        /\ result.value[1] = result.args[2]
        /\ result.value[2] = result.args[3]
C17_Witness ==
    /\ result.op = "tile_of_center"
    /\ result.args = << 3, 5, 0 >>
    /\ result.value = << 5, 0 >>

Reverse(ring) == [i \in 1..Len(ring) |-> ring[Len(ring) + 1 - i]]

\* C16: winding invariance: for any simple ring and any point,
\* point_in_polygon(p, ring) = point_in_polygon(p, reverse(ring)).
C16_WindingInvariance ==
    result.op = "point_in_polygon" =>
        result.value = point_in_polygon(result.args[1], Reverse(result.args[2]))

\* After a storage failure the loop is left at once: no later step of it, no
\* commit, and the run that exits has closed the connection.
C18_AbortOnStorageFailure ==
    (cli.pc \in {"running", "exit"} /\ Len(hist) > 0 /\ Last.status = "StorageError") =>
        /\ pc = "idle"
        /\ commits = 0
        /\ disk = atCall.disk
        /\ cli.pc = "exit" => conn = "closed"

\* C18: a storage failure during processing aborts the remaining loop at once
\* (no further delete, zoom level or boundary, no commit) and the connection
\* is released on the way out; and once the connection has been opened, every
\* exit path of the run (success, failure while counting, failure while
\* processing, failed schema validation) has released it when the run exits.
C18_EveryExitReleases ==
    /\ C18_AbortOnStorageFailure
    /\ cli.pc = "exit" => conn # "open"

====
